---- MODULE Spec2Model ----
(***************************************************************************)
(* A model of rig_stats.py: the NVML telemetry collector (NvidiaCollector), *)
(* the command-line validation (parse_args) and the process lifecycle       *)
(* (main) with the scrape threads of the HTTP exposition server.            *)
(***************************************************************************)
EXTENDS Integers, Sequences, FiniteSets, TLC

(***************************************************************************)
(* Bounds of the model.                                                     *)
(***************************************************************************)
\* the largest number of GPUs the hardware enumerates
MaxDev == 2
\* the largest number of library calls that fail on one machine
MaxBroken == 1
\* the largest PCI bus number given to the label derivation
MaxBus == 17
\* the largest number of devices in one labelled snapshot
MaxSnap == 2
\* the largest number of GPUs of the machine the whole process runs on
ServeDev == 1

(***************************************************************************)
(* Python values: None, str, int, float, the NVML result structs and the   *)
(* two-element list of PowerManagementLimitConstraints.  One record shape   *)
(* for all, so that any two values compare.                                 *)
(***************************************************************************)
PyNone == [t |-> "None", s |-> "", n |-> 0]
PyStr(x) == [t |-> "str", s |-> x, n |-> 0]
PyInt(k) == [t |-> "int", s |-> "", n |-> k]
PyFloat(k) == [t |-> "float", s |-> "", n |-> k]
PyStruct(k) == [t |-> "struct", s |-> "", n |-> k]
PyList(k) == [t |-> "list", s |-> "", n |-> k]
\* the NotImplemented singleton
PyNotImplemented == [t |-> "NotImplemented", s |-> "", n |-> 0]
PyBool(b) == [t |-> "bool", s |-> "", n |-> IF b THEN 1 ELSE 0]

\* bool(x), as filter() applies it to the result of its predicate
Truthy(x) ==
    CASE x.t = "None" -> FALSE
      [] x.t = "str" -> x.s # ""
      [] x.t \in {"int", "float", "bool"} -> x.n # 0
      [] OTHER -> TRUE

(***************************************************************************)
(* str() of a non-negative int: decimal digits, most significant first.    *)
(***************************************************************************)
Digit(d) ==
    CASE d = 0 -> "0" [] d = 1 -> "1" [] d = 2 -> "2" [] d = 3 -> "3"
      [] d = 4 -> "4" [] d = 5 -> "5" [] d = 6 -> "6" [] d = 7 -> "7"
      [] d = 8 -> "8" [] d = 9 -> "9"

RECURSIVE Str(_)
Str(k) == IF k < 10 THEN Digit(k) ELSE Str(k \div 10) \o Digit(k % 10)

\* int() of a string given as its characters: [ok, n]
DigitChars == {"0", "1", "2", "3", "4", "5", "6", "7", "8", "9"}
DigitVal(c) == CHOOSE d \in 0..9 : Digit(d) = c

RECURSIVE IntDigits(_, _)
IntDigits(cs, acc) ==
    IF cs = <<>> THEN acc
    ELSE IntDigits(Tail(cs), 10 * acc + DigitVal(Head(cs)))

IntOf(cs) ==
    IF cs # <<>> /\ \A k \in 1..Len(cs) : cs[k] \in DigitChars
    THEN [ok |-> TRUE, n |-> IntDigits(cs, 0)]
    ELSE [ok |-> FALSE, n |-> 0]

(***************************************************************************)
(* parse_args: the argparse declarations and the two group checks.         *)
(* A command line gives each flag at most once: [given, raw].  The raw     *)
(* text of an int-typed flag is kept as its characters.                    *)
(***************************************************************************)
Flags ==
    {"port", "pool", "pool_api_host", "pool_api_miner",
     "miner", "miner_api_host", "miner_api_port"}

\* default of --port
DefaultPort == 9001
PoolChoices == {"flypool"}
MinerChoices == {"dstm", "bminer"}

Absent(raw) == [given |-> FALSE, raw |-> raw]
Given(raw) == [given |-> TRUE, raw |-> raw]

\* one optional str flag: None when absent
StoreStr(a) == IF a.given THEN [ok |-> TRUE, v |-> PyStr(a.raw)]
               ELSE [ok |-> TRUE, v |-> PyNone]

\* one optional str flag with choices=: argparse rejects any other value
StoreChoice(a, choices) ==
    IF ~a.given THEN [ok |-> TRUE, v |-> PyNone]
    ELSE IF a.raw \in choices THEN [ok |-> TRUE, v |-> PyStr(a.raw)]
    ELSE [ok |-> FALSE, v |-> PyNone]

\* one optional flag with type=int: argparse rejects what int() rejects
StoreInt(a, default) ==
    IF ~a.given THEN [ok |-> TRUE, v |-> default]
    ELSE IF IntOf(a.raw).ok THEN [ok |-> TRUE, v |-> PyInt(IntOf(a.raw).n)]
    ELSE [ok |-> FALSE, v |-> PyNone]

\* parser.parse_args(): the namespace, or an argparse error
ArgparseParse(av) ==
    LET r == [f \in Flags |->
                CASE f = "port" -> StoreInt(av[f], PyInt(DefaultPort))
                  [] f = "pool" -> StoreChoice(av[f], PoolChoices)
                  [] f = "miner" -> StoreChoice(av[f], MinerChoices)
                  [] f = "miner_api_port" -> StoreInt(av[f], PyNone)
                  [] OTHER -> StoreStr(av[f])]
    IN [ok |-> \A f \in Flags : r[f].ok, ns |-> [f \in Flags |-> r[f].v]]

\* filter(None, ...) would keep the values that are themselves true
ValueItself(x) == x

\* None.__ne__(x): False for None, NotImplemented for anything else
NoneNe(x) == IF x.t = "None" THEN PyBool(FALSE) ELSE PyNotImplemented

\* len(tuple(filter(None.__ne__, tup)))
CountSupplied(tup) == Len(SelectSeq(tup, LAMBDA x : Truthy(NoneNe(x))))

PoolGroup(ns) == <<ns["pool"], ns["pool_api_host"], ns["pool_api_miner"]>>
MinerGroup(ns) == <<ns["miner"], ns["miner_api_host"], ns["miner_api_port"]>>

\* the function: [status, ns]; status "ok", or the error that ends the process
parse_args(av) ==
    LET p == ArgparseParse(av) IN
    IF ~p.ok THEN [status |-> "argparse_error", ns |-> p.ns]
    ELSE IF CountSupplied(PoolGroup(p.ns)) \notin {0, 3}
    THEN [status |-> "pool_error", ns |-> p.ns]
    ELSE IF CountSupplied(MinerGroup(p.ns)) \notin {0, 3}
    THEN [status |-> "miner_error", ns |-> p.ns]
    ELSE [status |-> "ok", ns |-> p.ns]

NoNamespace == [f \in Flags |-> PyNone]

(***************************************************************************)
(* The gpu_id label: str(bus), then six if-statements in a row.            *)
(***************************************************************************)
\* a copy-paste slip in the first statement: "10" becomes "11", which the
\* second statement rewrites again
RemapTableSlip ==
    << <<"10", "11">>, <<"11", "B">>, <<"12", "C">>,
       <<"13", "D">>, <<"14", "E">>, <<"15", "F">> >>

\* a slip in the last statement: "15" becomes "E" as "14" does
RemapTableClash ==
    << <<"10", "A">>, <<"11", "B">>, <<"12", "C">>,
       <<"13", "D">>, <<"14", "E">>, <<"15", "E">> >>

RemapTable ==
    << <<"10", "A">>, <<"11", "B">>, <<"12", "C">>,
       <<"13", "D">>, <<"14", "E">>, <<"15", "F">> >>

\* if gpu_id == from: gpu_id = to
Remap(g, from, to) == IF g = from THEN to ELSE g

\* gpu_id before the first statement and after each one
RemapSteps(g) ==
    LET step[k \in 1..(Len(RemapTable) + 1)] ==
            IF k = 1 THEN g
            ELSE Remap(step[k - 1], RemapTable[k - 1][1], RemapTable[k - 1][2])
    IN step

GpuId(b) == RemapSteps(Str(b))[Len(RemapTable) + 1]

(***************************************************************************)
(* NvidiaCollector.collect: the seven gauge families and, per device, the  *)
(* seventeen NvidiaCollector.call(...) expressions in source order, each    *)
(* with the add_metric calls that consume its result.                       *)
(***************************************************************************)
\* a slip in the yields: fan_speed leaves the generator first
FamilyOrderFanFirst ==
    <<"fan_speed", "gpu_utilization", "clock_speed", "power_usage",
      "memory_usage", "bar1_memory_usage", "temperature">>

\* the order of the yield statements
FamilyOrder ==
    <<"gpu_utilization", "clock_speed", "power_usage", "memory_usage",
      "bar1_memory_usage", "temperature", "fan_speed">>

FamilyNames == {FamilyOrder[k] : k \in 1..Len(FamilyOrder)}

\* how add_metric's value argument is taken from the result of the call:
\* the result itself, an attribute of it, or an element of it
Self == [kind |-> "self", k |-> 0]
Attr(k) == [kind |-> "attr", k |-> k]
Item(k) == [kind |-> "item", k |-> k]

Add(sub, acc) == [sub |-> sub, acc |-> acc]
CallSite(getter, arg, fam, adds) ==
    [getter |-> getter, arg |-> arg, fam |-> fam, adds |-> adds]

Calls ==
    << CallSite("UtilizationRates", "", "gpu_utilization",
                <<Add("gpu", Attr(1)), Add("memory", Attr(2))>>),
       CallSite("ClockInfo", "NVML_CLOCK_COUNT", "clock_speed",
                <<Add("core", Self)>>),
       CallSite("ClockInfo", "NVML_CLOCK_MEM", "clock_speed",
                <<Add("memory", Self)>>),
       CallSite("MaxClockInfo", "NVML_CLOCK_COUNT", "clock_speed",
                <<Add("max_core", Self)>>),
       CallSite("MaxClockInfo", "NVML_CLOCK_MEM", "clock_speed",
                <<Add("max_memory", Self)>>),
       CallSite("PowerUsage", "", "power_usage",
                <<Add("usage", Self)>>),
       CallSite("PowerManagementLimitConstraints", "", "power_usage",
                <<Add("min_limit", Item(1))>>),
       CallSite("PowerManagementLimitConstraints", "", "power_usage",
                <<Add("max_limit", Item(2))>>),
       CallSite("PowerManagementLimit", "", "power_usage",
                <<Add("limit", Self)>>),
       CallSite("PowerManagementDefaultLimit", "", "power_usage",
                <<Add("default_limit", Self)>>),
       CallSite("EnforcedPowerLimit", "", "power_usage",
                <<Add("enforced_limit", Self)>>),
       CallSite("MemoryInfo", "", "memory_usage",
                <<Add("used", Attr(1)), Add("free", Attr(2)),
                  Add("total", Attr(3))>>),
       CallSite("BAR1MemoryInfo", "", "bar1_memory_usage",
                <<Add("used", Attr(1)), Add("free", Attr(2)),
                  Add("total", Attr(3))>>),
       CallSite("Temperature", "NVML_TEMPERATURE_GPU", "temperature",
                <<Add("current", Self)>>),
       CallSite("TemperatureThreshold", "NVML_TEMPERATURE_THRESHOLD_SLOWDOWN",
                "temperature", <<Add("slowdown_threshold", Self)>>),
       CallSite("TemperatureThreshold", "NVML_TEMPERATURE_THRESHOLD_SHUTDOWN",
                "temperature", <<Add("shutdown_threshold", Self)>>),
       CallSite("FanSpeed", "", "fan_speed",
                <<Add("", Self)>>) >>

NumCalls == Len(Calls)

\* what the NVML getter returns when it succeeds: a ctypes struct, a list of
\* two ints, or an int
StructGetters == {"UtilizationRates", "MemoryInfo", "BAR1MemoryInfo"}
ListGetters == {"PowerManagementLimitConstraints"}

\* the counter behind call site c of device d: positive, and different for
\* every call site of every device
HwValue(d, c) == 100 * (d + 1) + c

NvmlDeviceGet(d, c) ==
    LET g == Calls[c].getter IN
    IF g \in StructGetters THEN PyStruct(HwValue(d, c))
    ELSE IF g \in ListGetters THEN PyList(HwValue(d, c))
    ELSE PyInt(HwValue(d, c))

\* NvidiaCollector.call: the getter's result, or 0.0 on nvml.NVMLError
call(failed, d, c) == IF failed THEN PyFloat(0) ELSE NvmlDeviceGet(d, c)

\* r, r.<attribute> or r[k]: [ok, v], or the exception Python raises
Access(r, acc) ==
    CASE acc.kind = "self" -> [ok |-> TRUE, v |-> r.n, exc |-> ""]
      [] acc.kind = "attr" ->
            IF r.t = "struct"
            THEN [ok |-> TRUE, v |-> 10 * r.n + acc.k, exc |-> ""]
            ELSE [ok |-> FALSE, v |-> 0, exc |-> "AttributeError"]
      [] acc.kind = "item" ->
            IF r.t = "list"
            THEN [ok |-> TRUE, v |-> 10 * r.n + acc.k, exc |-> ""]
            ELSE [ok |-> FALSE, v |-> 0, exc |-> "TypeError"]

\* the label list of one add_metric call: fan_speed has the gpu_id alone
LabelValues(fam, id, sub) == IF fam = "fan_speed" THEN <<id>> ELSE <<id, sub>>

Sample(fam, id, sub, v) == [labels |-> LabelValues(fam, id, sub), value |-> v]

\* the add_metric calls of call site c in order; the first access that
\* raises ends the statement and nothing after it runs
RECURSIVE AddMetrics(_, _, _, _, _)
AddMetrics(samples, id, c, r, k) ==
    IF k > Len(Calls[c].adds) THEN [ok |-> TRUE, samples |-> samples, exc |-> ""]
    ELSE LET a == Calls[c].adds[k]
             x == Access(r, a.acc)
         IN IF ~x.ok THEN [ok |-> FALSE, samples |-> samples, exc |-> x.exc]
            ELSE AddMetrics(Append(samples, Sample(Calls[c].fam, id, a.sub, x.v)),
                            id, c, r, k + 1)

\* the families a pass would keep from the one before it, were they made
\* once (in __init__, or as class attributes) instead of in collect()
GaugeFamiliesKept(prev) == prev

\* the GaugeMetricFamily objects collect() makes: new and empty, whatever
\* the pass before left
GaugeFamilies(prev) == [f \in FamilyNames |-> <<>>]

(***************************************************************************)
(* State.                                                                   *)
(***************************************************************************)
VARIABLES
    \* the command line and main()
    argv,           \* the flags given to the process
    args,           \* the dict parse_args returned
    mpc,            \* where the main thread is
    exitCode,       \* the status the process ends with (-1: none yet)
    exitCause,      \* what ended main(): an error or the interrupt
    nvml,           \* the NVML library: "uninit", "init", "shutdown"
    initCount,      \* calls of nvmlInit that succeeded
    shutdownCount,  \* calls of nvmlShutdown
    atexitFns,      \* the functions registered with atexit
    serving,        \* the HTTP server thread accepts scrapes
    \* the machine
    nDev,           \* GPUs present, with indices 0..nDev-1
    bus,            \* PCI bus number of each GPU
    broken,         \* the library calls that raise NVMLError on this machine
    \* one collect() generator per scrape thread
    pc,             \* where the pass is
    fams,           \* the seven families, by name: the samples added so far
    count,          \* what nvmlDeviceGetCount returned
    handles,        \* gpu_handles built so far
    dev,            \* position of the for loop in gpu_handles
    gpu_id,         \* the label of the device of this iteration
    cidx,           \* the next call site of this iteration
    yielded,        \* the families the generator has yielded
    exc,            \* the exception that ended the pass
    \* history
    log,            \* the results of call(...) in this pass, in order
    rdState,        \* the state of the library at the pass's latest call into it
    prevOut,        \* what the latest completed pass yielded
    \* the label derivation on its own
    lbBus,          \* bus numbers of a snapshot's devices
    lbIds           \* their labels, once derived

mainVars == <<argv, args, mpc, exitCode, exitCause, nvml, initCount, shutdownCount,
              atexitFns, serving>>
hwVars == <<nDev, bus, broken>>
passVars == <<pc, fams, count, handles, dev, gpu_id, cidx, yielded, exc,
              log, rdState, prevOut>>
lbVars == <<lbBus, lbIds>>
vars == <<mainVars, hwVars, passVars, lbVars>>

\* the scrape threads of the HTTP server
Scrapers == {1, 2}

\* the places where a call into the library can fail
CountPoint == <<"count", 0, 0>>
HandlePoint(d) == <<"handle", d, 0>>
PciPoint(d) == <<"pci", d, 0>>
ReadPoint(d, c) == <<"read", d, c>>
FailPoints(m) ==
    {CountPoint}
      \cup {HandlePoint(d) : d \in 0..(m - 1)}
      \cup {PciPoint(d) : d \in 0..(m - 1)}
      \cup {ReadPoint(d, c) : d \in 0..(m - 1), c \in 1..NumCalls}

\* a library call raises NVMLError: the counter is unsupported or in error,
\* or the library is not initialised (any more)
LibFails(p) == p \in broken \/ nvml # "init"

\* a device-count query that gave no devices instead of raising
DeviceGetCountQuiet == IF LibFails(CountPoint) THEN [ok |-> TRUE, n |-> 0]
                       ELSE [ok |-> TRUE, n |-> nDev]

\* nvml.nvmlDeviceGetCount()
DeviceGetCount == IF LibFails(CountPoint) THEN [ok |-> FALSE, n |-> 0]
                  ELSE [ok |-> TRUE, n |-> nDev]

ProcessAlive == mpc # "terminated"

(***************************************************************************)
(* collect(), one step per call into the library and one per yield.        *)
(***************************************************************************)
Raise(t, e) ==
    /\ pc' = [pc EXCEPT ![t] = "raised"]
    /\ exc' = [exc EXCEPT ![t] = e]

Called(t) == rdState' = [rdState EXCEPT ![t] = nvml]

\* the first next() on the generator: the body starts and makes the families
StartPass(t) ==
    /\ ProcessAlive /\ serving
    /\ pc[t] = "idle"
    /\ pc' = [pc EXCEPT ![t] = "count"]
    /\ fams' = [fams EXCEPT ![t] = GaugeFamilies(fams[t])]
    /\ UNCHANGED <<count, handles, dev, gpu_id, cidx, yielded, exc, log,
                   rdState, prevOut>>
    /\ UNCHANGED <<mainVars, hwVars, lbVars>>

\* range(nvml.nvmlDeviceGetCount())
GetCount(t) ==
    /\ ProcessAlive
    /\ pc[t] = "count"
    /\ Called(t)
    /\ IF DeviceGetCount.ok
       THEN /\ count' = [count EXCEPT ![t] = DeviceGetCount.n]
            /\ pc' = [pc EXCEPT ![t] =
                        IF DeviceGetCount.n = 0 THEN "yield" ELSE "handle"]
            /\ exc' = exc
       ELSE /\ Raise(t, "NVMLError")
            /\ count' = count
    /\ UNCHANGED <<fams, handles, dev, gpu_id, cidx, yielded, log, prevOut>>
    /\ UNCHANGED <<mainVars, hwVars, lbVars>>

\* (i, nvml.nvmlDeviceGetHandleByIndex(i)) for the next i
GetHandle(t) ==
    /\ ProcessAlive
    /\ pc[t] = "handle"
    /\ Called(t)
    /\ LET i == Len(handles[t]) IN
       IF LibFails(HandlePoint(i))
       THEN /\ Raise(t, "NVMLError")
            /\ UNCHANGED <<handles, dev>>
       ELSE /\ handles' = [handles EXCEPT ![t] = Append(@, i)]
            /\ exc' = exc
            /\ IF i + 1 = count[t]
               THEN /\ pc' = [pc EXCEPT ![t] = "pci"]
                    /\ dev' = [dev EXCEPT ![t] = 1]
               ELSE UNCHANGED <<pc, dev>>
    /\ UNCHANGED <<fams, count, gpu_id, cidx, yielded, log, prevOut>>
    /\ UNCHANGED <<mainVars, hwVars, lbVars>>

\* gpu_id = str(nvml.nvmlDeviceGetPciInfo(handle).bus) and the six ifs
PciInfo(t) ==
    /\ ProcessAlive
    /\ pc[t] = "pci"
    /\ Called(t)
    /\ LET d == handles[t][dev[t]] IN
       IF LibFails(PciPoint(d))
       THEN /\ Raise(t, "NVMLError")
            /\ UNCHANGED <<gpu_id, cidx>>
       ELSE /\ gpu_id' = [gpu_id EXCEPT ![t] = GpuId(bus[d])]
            /\ cidx' = [cidx EXCEPT ![t] = 1]
            /\ pc' = [pc EXCEPT ![t] = "read"]
            /\ exc' = exc
    /\ UNCHANGED <<fams, count, handles, dev, yielded, log, prevOut>>
    /\ UNCHANGED <<mainVars, hwVars, lbVars>>

\* one NvidiaCollector.call(...) and the add_metric calls on its result
Read(t) ==
    /\ ProcessAlive
    /\ pc[t] = "read"
    /\ Called(t)
    /\ LET d == handles[t][dev[t]]
           c == cidx[t]
           f == Calls[c].fam
           r == call(LibFails(ReadPoint(d, c)), d, c)
           res == AddMetrics(fams[t][f], gpu_id[t], c, r, 1)
       IN /\ log' = [log EXCEPT ![t] = Append(@, [d |-> d, c |-> c, r |-> r])]
          /\ IF ~res.ok
             THEN /\ Raise(t, res.exc)
                  /\ UNCHANGED <<fams, dev, cidx>>
             ELSE /\ fams' = [fams EXCEPT ![t][f] = res.samples]
                  /\ exc' = exc
                  /\ IF c < NumCalls
                     THEN /\ cidx' = [cidx EXCEPT ![t] = c + 1]
                          /\ UNCHANGED <<pc, dev>>
                     ELSE IF dev[t] < Len(handles[t])
                     THEN /\ dev' = [dev EXCEPT ![t] = @ + 1]
                          /\ pc' = [pc EXCEPT ![t] = "pci"]
                          /\ cidx' = cidx
                     ELSE /\ pc' = [pc EXCEPT ![t] = "yield"]
                          /\ UNCHANGED <<dev, cidx>>
    /\ UNCHANGED <<count, handles, gpu_id, yielded, prevOut>>
    /\ UNCHANGED <<mainVars, hwVars, lbVars>>

\* the next yield statement
Yield(t) ==
    /\ ProcessAlive
    /\ pc[t] = "yield"
    /\ LET k == Len(yielded[t]) + 1
           f == FamilyOrder[k]
       IN /\ yielded' = [yielded EXCEPT ![t] =
                           Append(@, [name |-> f, samples |-> fams[t][f]])]
          /\ pc' = [pc EXCEPT ![t] =
                      IF k = Len(FamilyOrder) THEN "done" ELSE "yield"]
    /\ UNCHANGED <<fams, count, handles, dev, gpu_id, cidx, exc, log,
                   rdState, prevOut>>
    /\ UNCHANGED <<mainVars, hwVars, lbVars>>

\* the generator is exhausted, or its exception reached the caller: the
\* scrape is answered and the generator's locals are dropped
EndScrape(t) ==
    /\ ProcessAlive
    /\ pc[t] \in {"done", "raised"}
    /\ prevOut' = IF pc[t] = "done" THEN [has |-> TRUE, out |-> yielded[t]]
                  ELSE prevOut
    /\ pc' = [pc EXCEPT ![t] = "idle"]
    /\ count' = [count EXCEPT ![t] = 0]
    /\ handles' = [handles EXCEPT ![t] = <<>>]
    /\ dev' = [dev EXCEPT ![t] = 0]
    /\ gpu_id' = [gpu_id EXCEPT ![t] = ""]
    /\ cidx' = [cidx EXCEPT ![t] = 0]
    /\ yielded' = [yielded EXCEPT ![t] = <<>>]
    /\ exc' = [exc EXCEPT ![t] = ""]
    /\ log' = [log EXCEPT ![t] = <<>>]
    /\ rdState' = [rdState EXCEPT ![t] = "none"]
    /\ UNCHANGED fams
    /\ UNCHANGED <<mainVars, hwVars, lbVars>>

(***************************************************************************)
(* main(): one step per statement.  An exception nobody catches and        *)
(* exit(0) both end the interpreter: the atexit functions run, then the    *)
(* process is gone.  The HTTP server's threads are daemon threads: they    *)
(* are not waited for and keep running until the process is gone.          *)
(***************************************************************************)
\* a main() that never registers the release
AtexitForgotten(fns) == fns

\* atexit.register(nvml.nvmlShutdown)
AtexitRegistered(fns) == Append(fns, "nvmlShutdown")

Exit(code, cause) ==
    /\ mpc' = "exiting"
    /\ exitCode' = code
    /\ exitCause' = cause

\* args = parse_args(): parser.error and argparse's own errors exit with 2
ParseArgs ==
    /\ mpc = "parse_args"
    /\ LET r == parse_args(argv) IN
       IF r.status = "ok"
       THEN /\ args' = r.ns
            /\ mpc' = "nvmlInit"
            /\ UNCHANGED <<exitCode, exitCause>>
       ELSE /\ Exit(2, r.status)
            /\ args' = args
    /\ UNCHANGED <<argv, nvml, initCount, shutdownCount, atexitFns, serving>>
    /\ UNCHANGED <<hwVars, passVars, lbVars>>

\* nvml.nvmlInit(): the driver may be missing
NvmlInit ==
    /\ mpc = "nvmlInit"
    /\ \E ok \in BOOLEAN :
         IF ok
         THEN /\ nvml' = "init"
              /\ initCount' = initCount + 1
              /\ mpc' = "atexit_register"
              /\ UNCHANGED <<exitCode, exitCause>>
         ELSE /\ Exit(1, "nvmlInit")
              /\ UNCHANGED <<nvml, initCount>>
    /\ UNCHANGED <<argv, args, shutdownCount, atexitFns, serving>>
    /\ UNCHANGED <<hwVars, passVars, lbVars>>

AtexitRegister ==
    /\ mpc = "atexit_register"
    /\ atexitFns' = AtexitRegistered(atexitFns)
    /\ mpc' = "register"
    /\ UNCHANGED <<argv, args, exitCode, exitCause, nvml, initCount,
                   shutdownCount, serving>>
    /\ UNCHANGED <<hwVars, passVars, lbVars>>

\* REGISTRY.register(NvidiaCollector()): may raise
Register ==
    /\ mpc = "register"
    /\ \E ok \in BOOLEAN :
         IF ok
         THEN /\ mpc' = "start_http_server"
              /\ UNCHANGED <<exitCode, exitCause>>
         ELSE Exit(1, "register")
    /\ UNCHANGED <<argv, args, nvml, initCount, shutdownCount, atexitFns,
                   serving>>
    /\ UNCHANGED <<hwVars, passVars, lbVars>>

\* start_http_server(args['port']): the server thread starts, or the call
\* raises (the port is taken) and the exception is not a KeyboardInterrupt
StartHttpServer ==
    /\ mpc = "start_http_server"
    /\ \E ok \in BOOLEAN :
         IF ok
         THEN /\ serving' = TRUE
              /\ mpc' = "sleep"
              /\ UNCHANGED <<exitCode, exitCause>>
         ELSE /\ Exit(1, "start_http_server")
              /\ serving' = serving
    /\ UNCHANGED <<argv, args, nvml, initCount, shutdownCount, atexitFns>>
    /\ UNCHANGED <<hwVars, passVars, lbVars>>

\* KeyboardInterrupt inside the try block: print, exit(0)
Interrupt ==
    /\ mpc \in {"start_http_server", "sleep"}
    /\ Exit(0, "KeyboardInterrupt")
    /\ UNCHANGED <<argv, args, nvml, initCount, shutdownCount, atexitFns,
                   serving>>
    /\ UNCHANGED <<hwVars, passVars, lbVars>>

\* the interpreter runs the registered functions
RunExitHandlers ==
    /\ mpc = "exiting"
    /\ mpc' = "finalizing"
    /\ IF atexitFns # <<>>
       THEN /\ nvml' = "shutdown"
            /\ shutdownCount' = shutdownCount + Len(atexitFns)
       ELSE UNCHANGED <<nvml, shutdownCount>>
    /\ UNCHANGED <<argv, args, exitCode, exitCause, initCount, atexitFns,
                   serving>>
    /\ UNCHANGED <<hwVars, passVars, lbVars>>

\* the process ends, and its daemon threads and their generators with it
Terminate ==
    /\ mpc = "finalizing"
    /\ mpc' = "terminated"
    /\ pc' = [t \in Scrapers |-> "idle"]
    /\ fams' = [t \in Scrapers |-> [f \in FamilyNames |-> <<>>]]
    /\ count' = [t \in Scrapers |-> 0]
    /\ handles' = [t \in Scrapers |-> <<>>]
    /\ dev' = [t \in Scrapers |-> 0]
    /\ gpu_id' = [t \in Scrapers |-> ""]
    /\ cidx' = [t \in Scrapers |-> 0]
    /\ yielded' = [t \in Scrapers |-> <<>>]
    /\ exc' = [t \in Scrapers |-> ""]
    /\ log' = [t \in Scrapers |-> <<>>]
    /\ UNCHANGED <<rdState, prevOut>>
    /\ UNCHANGED <<argv, args, exitCode, exitCause, nvml, initCount,
                   shutdownCount, atexitFns, serving>>
    /\ UNCHANGED <<hwVars, lbVars>>

(***************************************************************************)
(* The label derivation applied to the devices of one snapshot.            *)
(***************************************************************************)
LabelDevices ==
    /\ ~lbIds.done
    /\ lbIds' = [done |-> TRUE,
                 ids |-> [k \in 1..Len(lbBus) |-> GpuId(lbBus[k])],
                 steps |-> [k \in 1..Len(lbBus) |-> RemapSteps(Str(lbBus[k]))]]
    /\ UNCHANGED lbBus
    /\ UNCHANGED <<mainVars, hwVars, passVars>>

(***************************************************************************)
(* Initial states.                                                          *)
(***************************************************************************)
\* raw flag values
StrFlag(raws) == {Absent("")} \cup {Given(x) : x \in raws}
IntFlag(raws) == {Absent(<<>>)} \cup {Given(x) : x \in raws}

NoFlags ==
    [port |-> Absent(<<>>), pool |-> Absent(""), pool_api_host |-> Absent(""),
     pool_api_miner |-> Absent(""), miner |-> Absent(""),
     miner_api_host |-> Absent(""), miner_api_port |-> Absent(<<>>)]

CommandLines ==
    { [port |-> a, pool |-> b, pool_api_host |-> c, pool_api_miner |-> d,
       miner |-> e, miner_api_host |-> f, miner_api_port |-> g] :
        a \in IntFlag({<<"8", "0">>, <<"x">>}),
        b \in StrFlag({"flypool", "ethermine"}),
        c \in StrFlag({"", "api.zcash.flypool.org"}),
        d \in StrFlag({"t1wallet"}),
        e \in StrFlag({"dstm", "bminer", "ewbf"}),
        f \in StrFlag({"127.0.0.1"}),
        g \in IntFlag({<<"0">>, <<"2", "2", "2", "2">>, <<"x">>}) }

\* the command lines of the lifecycle runs: a whole group, a part of one
ServeCommandLines ==
    { [NoFlags EXCEPT !["miner"] = Given("dstm"),
                      !["miner_api_host"] = Given("127.0.0.1"),
                      !["miner_api_port"] = Given(<<"2", "2", "2", "2">>)],
      [NoFlags EXCEPT !["pool"] = Given("flypool")] }

\* bus numbers of the first GPU; the others follow it
FirstBuses == {9, 15}

InitPasses ==
    /\ pc = [t \in Scrapers |-> "idle"]
    /\ fams = [t \in Scrapers |-> [f \in FamilyNames |-> <<>>]]
    /\ count = [t \in Scrapers |-> 0]
    /\ handles = [t \in Scrapers |-> <<>>]
    /\ dev = [t \in Scrapers |-> 0]
    /\ gpu_id = [t \in Scrapers |-> ""]
    /\ cidx = [t \in Scrapers |-> 0]
    /\ yielded = [t \in Scrapers |-> <<>>]
    /\ exc = [t \in Scrapers |-> ""]
    /\ log = [t \in Scrapers |-> <<>>]
    /\ rdState = [t \in Scrapers |-> "none"]
    /\ prevOut = [has |-> FALSE, out |-> <<>>]

InitNoLabels ==
    /\ lbBus = <<>>
    /\ lbIds = [done |-> FALSE, ids |-> <<>>, steps |-> <<>>]

InitNoMachine ==
    /\ nDev = 0
    /\ bus = <<>>
    /\ broken = {}

\* the subsets of S with at most k elements
RECURSIVE SubsetsUpTo(_, _)
SubsetsUpTo(S, k) ==
    IF k = 0 THEN {{}}
    ELSE LET smaller == SubsetsUpTo(S, k - 1)
         IN smaller \cup {s \cup {x} : s \in smaller, x \in S}

\* the machine: up to maxDev GPUs on consecutive buses, up to maxBroken
\* failing library calls
InitMachine(maxDev, maxBroken, firstBuses) ==
    /\ nDev \in 0..maxDev
    /\ \E b \in firstBuses : bus = [d \in 0..(nDev - 1) |-> b + d]
    /\ broken \in SubsetsUpTo(FailPoints(nDev), maxBroken)

\* main() at its first statement
InitMain(cmds) ==
    /\ argv \in cmds
    /\ args = NoNamespace
    /\ mpc = "parse_args"
    /\ exitCode = -1
    /\ exitCause = ""
    /\ nvml = "uninit"
    /\ initCount = 0
    /\ shutdownCount = 0
    /\ atexitFns = <<>>
    /\ serving = FALSE

\* main() in its sleep loop, started with no flags
InitServing ==
    /\ argv = NoFlags
    /\ args = parse_args(NoFlags).ns
    /\ mpc = "sleep"
    /\ exitCode = -1
    /\ exitCause = ""
    /\ nvml = "init"
    /\ initCount = 1
    /\ shutdownCount = 0
    /\ atexitFns = AtexitRegistered(<<>>)
    /\ serving = TRUE

(***************************************************************************)
(* Specifications.                                                          *)
(***************************************************************************)
Pass(t) ==
    \/ StartPass(t)
    \/ GetCount(t)
    \/ GetHandle(t)
    \/ PciInfo(t)
    \/ Read(t)
    \/ Yield(t)
    \/ EndScrape(t)

\* scrapes served one after another by a running exporter
Init == InitServing /\ InitMachine(MaxDev, MaxBroken, FirstBuses) /\ InitPasses /\ InitNoLabels
Next == Pass(1)
Spec == Init /\ [][Next]_vars

\* the whole process: main() and two scrape threads
InitServe ==
    /\ InitMain(ServeCommandLines) /\ InitMachine(ServeDev, 0, {10})
    /\ InitPasses /\ InitNoLabels
NextServe ==
    \/ ParseArgs
    \/ NvmlInit
    \/ AtexitRegister
    \/ Register
    \/ StartHttpServer
    \/ Interrupt
    \/ RunExitHandlers
    \/ Terminate
    \/ \E t \in Scrapers : Pass(t)
SpecServe == InitServe /\ [][NextServe]_vars

\* parse_args on every command line of CommandLines
InitArgs ==
    InitMain(CommandLines) /\ InitNoMachine /\ InitPasses /\ InitNoLabels
NextArgs == ParseArgs
SpecArgs == InitArgs /\ [][NextArgs]_vars

\* the label derivation on every snapshot of up to MaxSnap devices
InitLabel ==
    /\ InitMain({NoFlags}) /\ InitNoMachine /\ InitPasses
    /\ lbBus \in UNION {[1..m -> 0..MaxBus] : m \in 0..MaxSnap}
    /\ lbIds = [done |-> FALSE, ids |-> <<>>, steps |-> <<>>]
NextLabel == LabelDevices
SpecLabel == InitLabel /\ [][NextLabel]_vars

(***************************************************************************)
(* What the specification says is emitted: section 4.1's table.            *)
(***************************************************************************)
TableMetrics ==
    <<"gpu_utilization", "clock_speed", "power_usage", "memory_usage",
      "bar1_memory_usage", "temperature", "fan_speed">>

TableSubtypes(m) ==
    CASE m = "gpu_utilization" -> <<"gpu", "memory">>
      [] m = "clock_speed" -> <<"core", "memory", "max_core", "max_memory">>
      [] m = "power_usage" ->
            <<"usage", "min_limit", "max_limit", "limit", "default_limit",
              "enforced_limit">>
      [] m = "memory_usage" -> <<"used", "free", "total">>
      [] m = "bar1_memory_usage" -> <<"used", "free", "total">>
      [] m = "temperature" ->
            <<"current", "slowdown_threshold", "shutdown_threshold">>
      [] m = "fan_speed" -> <<"">>

\* the DeviceLabel of a bus number, as the specification gives it
TableLabel(b) ==
    CASE Str(b) = "10" -> "A" [] Str(b) = "11" -> "B" [] Str(b) = "12" -> "C"
      [] Str(b) = "13" -> "D" [] Str(b) = "14" -> "E" [] Str(b) = "15" -> "F"
      [] OTHER -> Str(b)

\* the label set of the sample of metric m, subtype sub, for a device label
TableLabels(m, label, sub) ==
    IF m = "fan_speed" THEN <<label>> ELSE <<label, sub>>

RECURSIVE Concat(_)
Concat(seqs) == IF seqs = <<>> THEN <<>> ELSE Head(seqs) \o Concat(Tail(seqs))

\* the samples of a pass in the order they leave it: <<metric, labels>>
EmittedKeys(groups) ==
    Concat([g \in 1..Len(groups) |->
              [j \in 1..Len(groups[g].samples) |->
                 <<groups[g].name, groups[g].samples[j].labels>>]])

KeysOf(m, d) ==
    [j \in 1..Len(TableSubtypes(m)) |->
       <<m, TableLabels(m, TableLabel(bus[d]), TableSubtypes(m)[j])>>]

\* device by device, and for each device metric by metric
DeviceMajorKeys(m) ==
    Concat([i \in 1..m |->
              Concat([g \in 1..Len(TableMetrics) |-> KeysOf(TableMetrics[g], i - 1)])])

\* metric by metric, and for each metric device by device
MetricMajorKeys(m) ==
    Concat([g \in 1..Len(TableMetrics) |->
              Concat([i \in 1..m |-> KeysOf(TableMetrics[g], i - 1)])])

\* the pass of thread t has ended, one way or the other
Ended(t) == pc[t] \in {"done", "raised"}

\* the sample of call site c, add k, for device d is in its family with value v
HasSample(t, d, c, k, v) ==
    \E j \in 1..Len(fams[t][Calls[c].fam]) :
        fams[t][Calls[c].fam][j] =
            [labels |-> TableLabels(Calls[c].fam, TableLabel(bus[d]),
                                    Calls[c].adds[k].sub),
             value |-> v]

(***************************************************************************)
(* C1.  A hardware read that fails leaves its sample in place with value   *)
(* zero: for every device and every one of the 22 readings, the pass       *)
(* completes, no error leaves collect(), and the sample is there and is 0. *)
(***************************************************************************)
C1_FailedReadGivesZeroSample ==
    \A t \in Scrapers :
        /\ exc[t] \notin {"AttributeError", "TypeError"}
        /\ pc[t] = "done" =>
             \A d \in 0..(count[t] - 1), c \in 1..NumCalls :
                ReadPoint(d, c) \in broken =>
                    \A k \in 1..Len(Calls[c].adds) : HasSample(t, d, c, k, 0)

(***************************************************************************)
(* C2.  With N devices enumerated, every pass emits N fan_speed, 2N        *)
(* gpu_utilization, 4N clock_speed, 6N power_usage, 3N memory_usage, 3N    *)
(* bar1_memory_usage and 3N temperature samples, whichever reads fail.     *)
(***************************************************************************)
C2_SampleCountsPerDevice ==
    \A t \in Scrapers :
        (Ended(t) /\ exc[t] # "NVMLError") =>
            /\ pc[t] = "done"
            /\ \A g \in 1..Len(yielded[t]) :
                  Len(yielded[t][g].samples) =
                      count[t] * Len(TableSubtypes(yielded[t][g].name))
            /\ {yielded[t][g].name : g \in 1..Len(yielded[t])} =
                  {TableMetrics[g] : g \in 1..Len(TableMetrics)}

(***************************************************************************)
(* C3.  When the device-count query fails, the pass fails with that error  *)
(* and has returned no metric group and no sample before it.               *)
(***************************************************************************)
C3_CountFailureFailsPass ==
    \A t \in Scrapers :
        /\ (CountPoint \in broken /\ pc[t] \notin {"idle", "count"}) =>
              /\ pc[t] = "raised"
              /\ exc[t] = "NVMLError"
              /\ yielded[t] = <<>>
        /\ pc[t] = "raised" => yielded[t] = <<>>

C3_Witness ==
    \E t \in Scrapers : CountPoint \in broken /\ pc[t] = "raised"

(***************************************************************************)
(* C4.  The label of a device is its bus number as a decimal string, but   *)
(* "10".."15" become "A".."F"; no label is rewritten by two of the six     *)
(* statements.                                                             *)
(***************************************************************************)
Rewrites(steps) == Cardinality({k \in 1..(Len(steps) - 1) : steps[k] # steps[k + 1]})

C4_LabelFollowsTable ==
    lbIds.done =>
        \A k \in 1..Len(lbBus) :
            /\ lbIds.ids[k] = TableLabel(lbBus[k])
            /\ Rewrites(lbIds.steps[k]) <= 1
            /\ Rewrites(lbIds.steps[k]) = 1 <=> lbBus[k] \in 10..15

C4_Witness ==
    /\ lbIds.done
    /\ \E j, k \in 1..Len(lbBus) :
          /\ lbBus[j] = 10 /\ lbIds.ids[j] = "A"
          /\ lbBus[k] = 16 /\ lbIds.ids[k] = "16"

(***************************************************************************)
(* C5.  As claimed: with every read succeeding, the samples leave a pass   *)
(* device by device, then metric by metric, then subtype by subtype.       *)
(***************************************************************************)
C5_DeviceMajorEmission ==
    \A t \in Scrapers :
        (pc[t] = "done" /\ broken = {}) =>
            EmittedKeys(yielded[t]) = DeviceMajorKeys(count[t])

(***************************************************************************)
(* C5, amended.  With every read succeeding, the samples leave a pass      *)
(* metric by metric in the table's order, within a metric device by        *)
(* device in index order, within a device subtype by subtype; and a pass   *)
(* yields what the pass before it yielded.                                 *)
(***************************************************************************)
C5_MetricMajorEmission ==
    \A t \in Scrapers :
        (pc[t] = "done" /\ broken = {}) =>
            /\ EmittedKeys(yielded[t]) = MetricMajorKeys(count[t])
            /\ prevOut.has => yielded[t] = prevOut.out

C5_Witness ==
    \E t \in Scrapers :
        pc[t] = "done" /\ broken = {} /\ count[t] = 2 /\ prevOut.has

(***************************************************************************)
(* C6.  As claimed: a command line is accepted exactly when each flag      *)
(* group has none or all three of its flags.                               *)
(***************************************************************************)
Supplied(group) == Cardinality({f \in group : argv[f].given})
PoolFlags == {"pool", "pool_api_host", "pool_api_miner"}
MinerFlags == {"miner", "miner_api_host", "miner_api_port"}
GroupsWhole == Supplied(PoolFlags) \in {0, 3} /\ Supplied(MinerFlags) \in {0, 3}
Accepted == mpc = "nvmlInit"
Rejected == mpc = "exiting" /\ exitCode = 2

C6_AcceptedIffGroupsWhole ==
    mpc # "parse_args" => (Accepted <=> GroupsWhole)

(***************************************************************************)
(* C6, amended.  A command line whose values argparse itself takes (the    *)
(* pool is flypool, the miner is dstm or bminer, the ports are integers)   *)
(* is accepted exactly when each flag group has none or all three of its   *)
(* flags; any other command line is rejected with an argument error, so a  *)
(* group with one or two flags is rejected whatever the other holds.       *)
(***************************************************************************)
IsInteger(raw) == raw # <<>> /\ \A k \in 1..Len(raw) : raw[k] \in DigitChars
ValuesTaken ==
    /\ argv["pool"].given => argv["pool"].raw = "flypool"
    /\ argv["miner"].given => argv["miner"].raw \in {"dstm", "bminer"}
    /\ argv["port"].given => IsInteger(argv["port"].raw)
    /\ argv["miner_api_port"].given => IsInteger(argv["miner_api_port"].raw)

C6_AcceptedIffTakenAndWhole ==
    mpc # "parse_args" =>
        /\ Accepted <=> (ValuesTaken /\ GroupsWhole)
        /\ ~Accepted => Rejected

C6_Witness ==
    /\ Accepted
    /\ Supplied(MinerFlags) = 3
    /\ argv["miner_api_port"].raw = <<"0">>
    /\ Supplied(PoolFlags) = 3
    /\ argv["pool_api_host"].raw = ""

(***************************************************************************)
(* C7.  A run of main() that acquires the handle acquires it once and      *)
(* releases it once, at process exit and not before, whether main() ends   *)
(* by the interrupt, by start_http_server failing or by the registration   *)
(* failing.                                                                *)
(***************************************************************************)
Exited == mpc \in {"finalizing", "terminated"}

C7_ReleasedOnceAtExit ==
    /\ initCount <= 1
    /\ shutdownCount <= initCount
    /\ ~Exited => shutdownCount = 0
    /\ (Exited /\ initCount = 1) => shutdownCount = 1

C7_Witness ==
    /\ mpc = "terminated"
    /\ exitCause = "start_http_server"
    /\ initCount = 1
    /\ shutdownCount = 1

(***************************************************************************)
(* C8.  Devices of one snapshot with different bus numbers have different  *)
(* labels.                                                                 *)
(***************************************************************************)
C8_DistinctBusDistinctLabel ==
    lbIds.done =>
        \A j, k \in 1..Len(lbBus) :
            lbBus[j] # lbBus[k] => lbIds.ids[j] # lbIds.ids[k]

C8_Witness ==
    /\ lbIds.done
    /\ \E j, k \in 1..Len(lbBus) :
          lbBus[j] = 14 /\ lbBus[k] = 15 /\ lbIds.ids[j] # lbIds.ids[k]

(***************************************************************************)
(* C9.  Every call a pass makes into the library is made while the handle  *)
(* is held: after nvmlInit and before nvmlShutdown.                        *)
(***************************************************************************)
C9_ReadsWhileHandleHeld ==
    \A t \in Scrapers : rdState[t] \in {"none", "init"}

(***************************************************************************)
(* C10.  The families of a pass hold exactly the samples computed from     *)
(* the results of the calls of that same pass, in the order of the calls,  *)
(* and what the pass yields is those families: nothing of an earlier pass  *)
(* or of the other thread's pass is in them.                               *)
(***************************************************************************)
\* the samples add_metric makes of one logged result
SamplesOf(e) ==
    [k \in 1..Len(Calls[e.c].adds) |->
       [labels |-> TableLabels(Calls[e.c].fam, TableLabel(bus[e.d]),
                               Calls[e.c].adds[k].sub),
        value |-> IF Calls[e.c].adds[k].acc.kind = "self" THEN e.r.n
                  ELSE 10 * e.r.n + Calls[e.c].adds[k].acc.k]]

\* the samples of family f that the logged results give, in log order
FromLog(lg, f) ==
    Concat([i \in 1..Len(lg) |->
              IF Calls[lg[i].c].fam = f THEN SamplesOf(lg[i]) ELSE <<>>])

\* the log without a last call whose result made the statement raise
Consumed(t) ==
    IF pc[t] = "raised" /\ exc[t] # "NVMLError"
    THEN SubSeq(log[t], 1, Len(log[t]) - 1)
    ELSE log[t]

C10_PassBuiltFromOwnReads ==
    \A t \in Scrapers :
        pc[t] # "idle" =>
            /\ \A f \in FamilyNames : fams[t][f] = FromLog(Consumed(t), f)
            /\ \A g \in 1..Len(yielded[t]) :
                  yielded[t][g].samples = fams[t][yielded[t][g].name]

C10_Witness ==
    \E t, u \in Scrapers :
        /\ prevOut.has
        /\ pc[t] = "done" /\ pc[u] = "read" /\ cidx[u] > 1
        /\ yielded[t][1].samples # <<>>

====
